---- MODULE Spec2Model ----
(***************************************************************************)
(* hello-vulkan (src/main.rs): the host program (main, App::create,        *)
(* App::render, App::destroy) as a state machine, together with the part   *)
(* of the Vulkan device it talks to (queues, the two binary semaphores,    *)
(* the swapchain images).  Host calls are single steps; the device runs    *)
(* between them.                                                           *)
(***************************************************************************)
EXTENDS Integers, Sequences, FiniteSets, TLC

\* ------------------------------------------------------------------ bounds
\* Largest number of images the driver puts in the swapchain.
MaxImages == 2
\* Number of queue families of the selected physical device.
NumFamilies == 2
\* Number of calls of App::render the event loop makes.
MaxFrames == 2
\* Number of CloseRequested events the event loop delivers.
MaxClose == 2

VARIABLES
    pc,            \* where the host thread is
    step,          \* position in App::create (index into CreateOrder)
    created,       \* creation log: the resources in the order they were created
    alive,         \* the resources that exist
    recorded,      \* recording log: the command buffers recorded, in order
    graphics_queue,\* AppData.graphics_queue (0: null, else the queue's family)
    present_queue, \* AppData.present_queue
    destroying,    \* main's flag
    control_flow,  \* winit's ControlFlow
    lastEvent,     \* the last event handed to the callback
    frame,         \* number of App::render calls started
    calls,         \* the API calls of the current App::render call, in order
    image_index,   \* render's local image_index
    img,           \* per swapchain image: acquired, ready, shown
    sem,           \* the two semaphores
    queues,        \* per queue: the operations submitted and not yet complete
    closes,        \* number of CloseRequested events delivered
    waits,         \* results of the device_wait_idle calls, in order
    destroyCalls,  \* number of App::destroy calls
    dstep,         \* position in App::destroy
    destroyLog,    \* the resources destroyed by the current App::destroy call
    doubleDestroy, \* a destroy call was made on a handle that no longer exists
    host,          \* what the program runs on: window handles, layers, shader files
    fault,         \* how and where the process ended, if it panicked
    dev,           \* a physical device record (check_physical_device)
    checked,       \* result of check_physical_device on dev
    arg,           \* the input of a swapchain or device set-up computation
    ret            \* its result

vars == <<pc, step, created, alive, recorded, graphics_queue, present_queue, destroying,
          control_flow, lastEvent, frame, calls, image_index, img, sem, queues,
          closes, waits, destroyCalls, dstep, destroyLog, doubleDestroy, host,
          fault, dev, checked, arg, ret>>

hostVars == <<pc, step, created, alive, recorded, graphics_queue, present_queue, destroying,
              control_flow, lastEvent, frame, calls, image_index, closes, waits,
              destroyCalls, dstep, destroyLog, doubleDestroy, host, fault>>

devVars == <<dev, checked, arg, ret>>

\* ---------------------------------------------------------------- resources
R(kind, idx) == [kind |-> kind, idx |-> idx]

Cr(rs) == [op |-> "create", res |-> rs]
De(rs) == [op |-> "destroy", res |-> rs]
Call == [op |-> "call", res |-> <<>>]
\* A choice the program stores without a call that can fail.
Sel(rs) == [op |-> "select", res |-> rs]
\* A condition the program tests, with panic!() or todo!() when it fails.
Chk(ok, kind) == [op |-> "check", res |-> <<>>, ok |-> ok, kind |-> kind]

\* end_command_buffer: the commands recorded into a command buffer since
\* begin_command_buffer become its content.
Rec(content) == [op |-> "record", res |-> <<>>, content |-> content]

\* A create or another call that returns a Result which is unwrapped.
Fallible(o) == o.op \in {"create", "call", "record"}

Range(s) == {s[i] : i \in 1..Len(s)}

RECURSIVE CreatedAfter(_, _, _)
CreatedAfter(log, ops, n) ==
    IF n = 0 THEN log
    ELSE LET o == ops[n]
             before == CreatedAfter(log, ops, n - 1)
         IN IF o.op \in {"create", "select"} THEN before \o o.res ELSE before

RECURSIVE AliveAfter(_, _, _)
AliveAfter(al, ops, n) ==
    IF n = 0 THEN al
    ELSE LET o == ops[n]
             before == AliveAfter(al, ops, n - 1)
         IN CASE o.op \in {"create", "select"} -> before \cup Range(o.res)
              [] o.op = "destroy" -> before \ Range(o.res)
              [] OTHER -> before

RECURSIVE RecordedAfter(_, _, _)
RecordedAfter(log, ops, n) ==
    IF n = 0 THEN log
    ELSE LET o == ops[n]
             before == RecordedAfter(log, ops, n - 1)
         IN IF o.op = "record" THEN Append(before, o.content) ELSE before

Count(kind) == Cardinality({r \in alive : r.kind = kind})

\* -------------------------------------------------------------------- names
\* Names are byte strings: 0 is NUL, the other bytes are characters.  A name
\* buffer (extension_name: [c_char; 256]) is BufLen bytes holding a
\* NUL-terminated string; the bytes after the NUL are whatever the driver left.
BufLen == 4
\* Largest byte value of a name.
MaxByte == 2
\* ash::extensions::khr::Swapchain::name(), "VK_KHR_swapchain", shortened.
SwapchainName == <<1, 2>>

\* VALIDATION_LAYER, "VK_LAYER_KHRONOS_validation", shortened.
VALIDATION_LAYER == <<2, 1>>

NameBuffers == {b \in [1..BufLen -> 0..MaxByte] : \E i \in 1..BufLen : b[i] = 0}

\* let mut ext = [0; 256]; copy_nonoverlapping(e, ext, e.to_bytes().len())
ZeroPadded(name) == [i \in 1..BufLen |-> IF i <= Len(name) THEN name[i] ELSE 0]

\* let mut validation_layer = [0; 256];
\* copy_nonoverlapping(VALIDATION_LAYER, validation_layer, to_bytes_with_nul().len())
ZeroPaddedNul(name) == ZeroPadded(Append(name, 0))

\* The name in a buffer whose bytes after the NUL are not all zero.
Unpadded(name) ==
    [i \in 1..BufLen |-> IF i <= Len(name) THEN name[i]
                         ELSE IF i = Len(name) + 1 THEN 0 ELSE 1]

\* --------------------------------------------------------------- the window
DisplayHandles == {"Xcb", "Xlib", "Wayland", "Windows", "Other"}

WindowHandles == {"Xcb", "Xlib", "Wayland", "Win32", "Other"}

\* get_required_instance_extensions: <<>> stands for todo!().
get_required_instance_extensions(window) ==
    CASE window = "Wayland" ->
            <<"VK_KHR_surface", "VK_KHR_wayland_surface", "VK_EXT_debug_utils">>
      [] window = "Xcb" ->
            <<"VK_KHR_surface", "VK_KHR_xcb_surface", "VK_EXT_debug_utils">>
      [] window = "Xlib" ->
            <<"VK_KHR_surface", "VK_KHR_xlib_surface", "VK_EXT_debug_utils">>
      [] OTHER -> <<>>

\* The arm of App::create's match that creates the surface: "" stands for todo!().
SurfaceArm(display, window) ==
    CASE display = "Xcb" /\ window = "Xcb" -> "create_xcb_surface"
      [] display = "Xlib" /\ window = "Xlib" -> "create_xlib_surface"
      [] display = "Windows" /\ window = "Win32" -> "create_win32_surface"
      [] display = "Wayland" /\ window = "Wayland" -> "create_wayland_surface"
      [] OTHER -> ""

\* What the program may find itself on: the window's handles, the instance
\* layers the loader reports (layer_name buffers), and whether the two SPIR-V
\* files pass create_shader_module's align_to test.
Hosts ==
    [display : DisplayHandles,
     window : WindowHandles,
     layers : {{}, {ZeroPadded(VALIDATION_LAYER)}, {Unpadded(VALIDATION_LAYER)}},
     vert_aligned : BOOLEAN,
     frag_aligned : BOOLEAN]

\* ------------------------------------------------------------- App::create
CreateOrder_swapped ==
    <<"create_instance", "create_surface", "pick_physical_device",
      "create_logical_device", "create_swapchain", "create_swapchain_image_views",
      "create_pipeline", "create_render_pass", "create_framebuffers",
      "create_command_pool", "create_command_buffers", "create_sync_objects">>

\* The calls of App::create, in order.
CreateOrder ==
    <<"create_instance", "create_surface", "pick_physical_device",
      "create_logical_device", "create_swapchain", "create_swapchain_image_views",
      "create_render_pass", "create_pipeline", "create_framebuffers",
      "create_command_pool", "create_command_buffers", "create_sync_objects">>

At(name) == pc = "create" /\ step <= Len(CreateOrder) /\ CreateOrder[step] = name

Fault(kind, at) == [kind |-> kind, at |-> at]

NoFault == Fault("", "")

\* The call that fails: an Err that is unwrapped, or a test that does not hold.
Fails(o) == Fallible(o) \/ (o.op = "check" /\ ~o.ok)

Passes(o) == o.op = "check" => o.ok

SetupFailure_retry == "create"

\* A panic ends the process.
SetupFailure == "panicked"

\* A setup function runs its calls in order; the first one that fails panics
\* (unwrap, panic!, todo!), and App::create goes on to its next call when all
\* succeeded.
RunOps(ops) ==
    \E n \in 0..Len(ops) :
        /\ \A i \in 1..n : Passes(ops[i])
        /\ n < Len(ops) => Fails(ops[n + 1])
        /\ created' = CreatedAfter(created, ops, n)
        /\ alive' = AliveAfter(alive, ops, n)
        /\ recorded' = RecordedAfter(recorded, ops, n)
        /\ IF n = Len(ops)
           THEN /\ step' = step + 1
                /\ pc' = IF step = Len(CreateOrder) THEN "idle" ELSE "create"
                /\ fault' = fault
           ELSE /\ step' = step
                /\ pc' = SetupFailure
                /\ fault' = Fault(IF ops[n + 1].op = "check" THEN ops[n + 1].kind
                                   ELSE "unwrap", CreateOrder[step])

createFrame == <<destroying, control_flow, lastEvent, frame, calls, image_index,
                 closes, waits, destroyCalls, dstep, destroyLog, doubleDestroy, host>>

create_instance ==
    /\ At("create_instance")
    /\ RunOps(<<Call,
                Chk(ZeroPaddedNul(VALIDATION_LAYER) \in host.layers, "panic!"),
                Chk(get_required_instance_extensions(host.window) # <<>>, "todo!"),
                Cr(<<R("instance", 0)>>), Cr(<<R("messenger", 0)>>)>>)
    /\ UNCHANGED <<graphics_queue, present_queue, img, sem, queues, createFrame, devVars>>

create_surface ==
    /\ At("create_surface")
    /\ RunOps(<<Chk(SurfaceArm(host.display, host.window) # "", "todo!"),
                Cr(<<R("surface", 0)>>)>>)
    /\ UNCHANGED <<graphics_queue, present_queue, img, sem, queues, createFrame, devVars>>

pick_physical_device ==
    /\ At("pick_physical_device")
    /\ \E found \in BOOLEAN :
          RunOps(<<Call, Chk(found, "panic!"), Sel(<<R("physical_device", 0)>>)>>)
    /\ UNCHANGED <<graphics_queue, present_queue, img, sem, queues, createFrame, devVars>>

\* QueueFamilyIndices::get gives the two families; the queues are queue 0 of each.
create_logical_device ==
    /\ At("create_logical_device")
    /\ RunOps(<<Call, Cr(<<R("device", 0)>>)>>)
    /\ \E g \in 1..NumFamilies, p \in 1..NumFamilies :
          /\ graphics_queue' = g
          /\ present_queue' = p
    /\ UNCHANGED <<img, sem, queues, createFrame, devVars>>

NewImage == [acquired |-> FALSE, writing |-> FALSE, ready |-> FALSE, shown |-> FALSE]

create_swapchain ==
    /\ At("create_swapchain")
    /\ RunOps(<<Call, Cr(<<R("swapchain", 0)>>), Call>>)
    /\ \E n \in 1..MaxImages : img' = [i \in 0..(n - 1) |-> NewImage]
    /\ UNCHANGED <<graphics_queue, present_queue, sem, queues, createFrame, devVars>>

\* data.swapchain_images.iter().map(create_image_view)
create_swapchain_image_views ==
    /\ At("create_swapchain_image_views")
    /\ RunOps([i \in 1..Cardinality(DOMAIN img) |-> Cr(<<R("image_view", i - 1)>>)])
    /\ UNCHANGED <<graphics_queue, present_queue, img, sem, queues, createFrame, devVars>>

create_render_pass ==
    /\ At("create_render_pass")
    /\ RunOps(<<Cr(<<R("render_pass", 0)>>)>>)
    /\ UNCHANGED <<graphics_queue, present_queue, img, sem, queues, createFrame, devVars>>

ShaderModuleCleanup_none == <<>>

\* device.destroy_shader_module(vert_shader_module / frag_shader_module)
ShaderModuleCleanup == <<De(<<R("shader_module", 0)>>), De(<<R("shader_module", 1)>>)>>

create_pipeline ==
    /\ At("create_pipeline")
    /\ RunOps(<<Chk(host.vert_aligned, "panic!"), Cr(<<R("shader_module", 0)>>),
                Chk(host.frag_aligned, "panic!"), Cr(<<R("shader_module", 1)>>),
                Cr(<<R("pipeline_layout", 0)>>), Cr(<<R("pipeline", 0)>>)>>
              \o ShaderModuleCleanup)
    /\ UNCHANGED <<graphics_queue, present_queue, img, sem, queues, createFrame, devVars>>

\* data.swapchain_image_view.iter().map(create_framebuffer)
create_framebuffers ==
    /\ At("create_framebuffers")
    /\ RunOps([i \in 1..Count("image_view") |-> Cr(<<R("framebuffer", i - 1)>>)])
    /\ UNCHANGED <<graphics_queue, present_queue, img, sem, queues, createFrame, devVars>>

create_command_pool ==
    /\ At("create_command_pool")
    /\ RunOps(<<Call, Cr(<<R("command_pool", 0)>>)>>)
    /\ UNCHANGED <<graphics_queue, present_queue, img, sem, queues, createFrame, devVars>>

FramebufferFor_first(i) == R("framebuffer", 0)

\* RenderPassBeginInfo::framebuffer(data.framebuffers[i])
FramebufferFor(i) == R("framebuffer", i)

\* What the loop body records into command buffer i: one render pass on
\* framebuffer i with the pipeline bound and one draw of three vertices.
Commands(i) ==
    [command_buffer |-> R("command_buffer", i), render_pass |-> R("render_pass", 0),
     framebuffer |-> FramebufferFor(i), pipeline |-> R("pipeline", 0)]

Recording_twice(n) ==
    [j \in 1..(4 * n) |->
        IF j % 2 = 1 THEN Call ELSE Rec(Commands(((j \div 2) - 1) % n))]

\* for (i, command_buffer) in data.command_buffers.iter().enumerate():
\* begin_command_buffer, the commands, end_command_buffer.
Recording(n) ==
    [j \in 1..(2 * n) |-> IF j % 2 = 1 THEN Call ELSE Rec(Commands((j \div 2) - 1))]

\* One allocation of data.framebuffers.len() buffers, then the recording loop.
create_command_buffers ==
    /\ At("create_command_buffers")
    /\ LET n == Count("framebuffer")
       IN RunOps(<<Cr([i \in 1..n |-> R("command_buffer", i - 1)])>> \o Recording(n))
    /\ UNCHANGED <<graphics_queue, present_queue, img, sem, queues, createFrame, devVars>>

create_sync_objects ==
    /\ At("create_sync_objects")
    /\ RunOps(<<Cr(<<R("image_available_semaphore", 0)>>),
                Cr(<<R("render_finished_semaphore", 0)>>)>>)
    /\ UNCHANGED <<graphics_queue, present_queue, img, sem, queues, createFrame, devVars>>

Create ==
    \/ create_instance
    \/ create_surface
    \/ pick_physical_device
    \/ create_logical_device
    \/ create_swapchain
    \/ create_swapchain_image_views
    \/ create_render_pass
    \/ create_pipeline
    \/ create_framebuffers
    \/ create_command_pool
    \/ create_command_buffers
    \/ create_sync_objects

\* ------------------------------------------------------------- the device
Sems == {"image_available_semaphore", "render_finished_semaphore"}

Op(kind, image, wait, signal) ==
    [kind |-> kind, image |-> image, wait |-> wait, signal |-> signal, running |-> FALSE]

Remove(s, i) == SubSeq(s, 1, i - 1) \o SubSeq(s, i + 1, Len(s))

Terminated == pc \in {"exited", "panicked", "crashed"}

GpuOn == ~Terminated /\ R("device", 0) \in alive

GpuIdle == \A q \in DOMAIN queues : queues[q] = <<>>

Signaled(ws) == \A s \in ws : sem[s] = "signaled"

\* FramebufferCreateInfo::attachments(&[*i]): framebuffer i is made from the
\* i-th image view.
Attachment(framebuffer) == R("image_view", framebuffer.idx)

\* ImageViewCreateInfo::image(*i): image view i is made from swapchain image i.
ImageOf(image_view) == image_view.idx

\* The swapchain image command buffer cb draws into: the image behind the
\* framebuffer of its recorded render pass.
Target(cb) ==
    LET last == CHOOSE i \in 1..Len(recorded) :
                    /\ recorded[i].command_buffer = R("command_buffer", cb)
                    /\ \A j \in (i + 1)..Len(recorded) :
                          recorded[j].command_buffer # R("command_buffer", cb)
    IN ImageOf(Attachment(recorded[last].framebuffer))

\* Pipeline stages, in the order a command goes through them.
Stages == <<"TOP_OF_PIPE", "VERTEX_SHADER", "FRAGMENT_SHADER",
            "COLOR_ATTACHMENT_OUTPUT", "BOTTOM_OF_PIPE">>

StageIndex(stage) == CHOOSE i \in 1..Len(Stages) : Stages[i] = stage

\* wait_stages = [COLOR_ATTACHMENT_OUTPUT]: the stage the submission's
\* semaphore wait holds back.
WaitStage == "COLOR_ATTACHMENT_OUTPUT"

DependencySrcStage_top == "TOP_OF_PIPE"

\* SubpassDependency: src_subpass EXTERNAL, src_stage_mask
\* COLOR_ATTACHMENT_OUTPUT.  The layout transition at the start of the render
\* pass comes after this stage of what was submitted before.
DependencySrcStage == "COLOR_ATTACHMENT_OUTPUT"

\* The semaphores the first write to the image (layout transition, clear) is
\* behind: those of the submission when the transition is ordered after the
\* stage the semaphore wait holds back, none when it is ordered after an
\* earlier stage only.
WriteWaits(o) ==
    IF StageIndex(DependencySrcStage) >= StageIndex(WaitStage) THEN o.wait ELSE {}

\* The presentation engine lets go of the acquired image: the semaphore given to
\* acquire_next_image is signalled.
SignalImageAvailable ==
    /\ GpuOn
    /\ sem["image_available_semaphore"] = "pending"
    /\ sem' = [sem EXCEPT !["image_available_semaphore"] = "signaled"]
    /\ UNCHANGED <<hostVars, img, queues, devVars>>

\* A submitted command buffer begins to write to its image (the layout
\* transition and the clear of the render pass) once the semaphores these writes
\* are behind are signalled.
BeginCommandBuffer ==
    /\ GpuOn
    /\ \E q \in DOMAIN queues : \E i \in 1..Len(queues[q]) :
          LET o == queues[q][i] IN
          /\ o.kind = "submit"
          /\ ~o.running
          /\ Signaled(WriteWaits(o))
          /\ sem' = [s \in Sems |-> IF s \in WriteWaits(o) THEN "unsignaled"
                                    ELSE sem[s]]
          /\ img' = [k \in DOMAIN img |->
                       IF k = Target(o.image) THEN [img[k] EXCEPT !.writing = TRUE]
                       ELSE img[k]]
          /\ queues' = [queues EXCEPT ![q][i].running = TRUE]
    /\ UNCHANGED <<hostVars, devVars>>

\* The command buffer completes: the image it draws into holds the frame, and the
\* semaphores of the submission are signalled.
FinishCommandBuffer ==
    /\ GpuOn
    /\ \E q \in DOMAIN queues : \E i \in 1..Len(queues[q]) :
          LET o == queues[q][i] IN
          /\ o.kind = "submit"
          /\ o.running
          /\ Signaled(o.wait \ WriteWaits(o))
          /\ img' = [k \in DOMAIN img |->
                       IF k = Target(o.image)
                       THEN [img[k] EXCEPT !.writing = FALSE, !.ready = TRUE]
                       ELSE img[k]]
          /\ sem' = [s \in Sems |->
                       IF s \in o.signal THEN "signaled"
                       ELSE IF s \in o.wait \ WriteWaits(o) THEN "unsignaled"
                       ELSE sem[s]]
          /\ queues' = [queues EXCEPT ![q] = Remove(queues[q], i)]
    /\ UNCHANGED <<hostVars, devVars>>

\* The presentation engine takes the image of a present request once the
\* semaphores the request waits on are signalled.
PresentImage ==
    /\ GpuOn
    /\ \E q \in DOMAIN queues : \E i \in 1..Len(queues[q]) :
          LET o == queues[q][i] IN
          /\ o.kind = "present"
          /\ Signaled(o.wait)
          /\ sem' = [s \in Sems |-> IF s \in o.wait THEN "unsignaled" ELSE sem[s]]
          /\ img' = [k \in DOMAIN img |->
                       IF k = o.image
                       THEN [img[k] EXCEPT !.shown = TRUE, !.acquired = FALSE]
                       ELSE img[k]]
          /\ queues' = [queues EXCEPT ![q] = Remove(queues[q], i)]
    /\ UNCHANGED <<hostVars, devVars>>

Gpu ==
    \/ SignalImageAvailable
    \/ BeginCommandBuffer
    \/ FinishCommandBuffer
    \/ PresentImage

\* ---------------------------------------------------------------- the frame
ApiCall(call, queue, image, wait, signal, timeout) ==
    [call |-> call, queue |-> queue, image |-> image, wait |-> wait,
     signal |-> signal, timeout |-> timeout]

\* ControlFlow::Exit is sticky: line 35's assignment does not undo it.
Polled == IF control_flow = "Exit" THEN "Exit" ELSE "Poll"

RenderGuard_always == TRUE

\* Event::MainEventsCleared if !destroying
RenderGuard == ~destroying

\* The event loop hands MainEventsCleared to the callback: App::render is entered
\* unless the guard fails, and then the event falls to the `_ => {}` arm.
MainEventsCleared ==
    /\ pc = "idle"
    /\ lastEvent' = "MainEventsCleared"
    /\ control_flow' = Polled
    /\ IF RenderGuard
       THEN /\ frame < MaxFrames
            /\ frame' = frame + 1
            /\ calls' = <<>>
            /\ pc' = "acquire"
       ELSE UNCHANGED <<frame, calls, pc>>
    /\ UNCHANGED <<step, created, alive, recorded, graphics_queue, present_queue,
                   destroying, image_index, img, sem, queues, closes, waits,
                   destroyCalls, dstep, destroyLog, doubleDestroy, host, fault,
                   devVars>>

\* Any other event: `_ => {}`.
OtherEvent ==
    /\ pc = "idle"
    /\ lastEvent' = "Other"
    /\ control_flow' = Polled
    /\ UNCHANGED <<pc, step, created, alive, recorded, graphics_queue, present_queue,
                   destroying, frame, calls, image_index, img, sem, queues, closes,
                   waits, destroyCalls, dstep, destroyLog, doubleDestroy, host, fault,
                   devVars>>

renderFrame == <<step, created, alive, recorded, graphics_queue, present_queue,
                 destroying, control_flow, lastEvent, frame, closes, waits,
                 destroyCalls, dstep, destroyLog, doubleDestroy, host, devVars>>

OnErr_ignored(next) == next

\* .unwrap() of an Err: the panic ends the process, whatever would come next.
OnErr(next) == "panicked"

\* acquire_next_image(swapchain, u64::MAX, image_available_semaphore, null fence)
acquire_next_image ==
    /\ pc = "acquire"
    /\ \/ /\ \E k \in DOMAIN img :
                /\ ~img[k].acquired
                /\ image_index' = k
                /\ img' = [img EXCEPT ![k] = [acquired |-> TRUE, writing |-> FALSE,
                                               ready |-> FALSE, shown |-> FALSE]]
                /\ calls' = Append(calls,
                       ApiCall("acquire_next_image", 0, k, {},
                               {"image_available_semaphore"}, "u64::MAX"))
          /\ sem' = [sem EXCEPT !["image_available_semaphore"] = "pending"]
          /\ pc' = "submit"
          /\ fault' = fault
       \/ /\ pc' = OnErr("submit")
          /\ fault' = Fault("unwrap", "acquire_next_image")
          /\ UNCHANGED <<image_index, img, calls, sem>>
    /\ UNCHANGED <<queues, renderFrame>>

CommandBufferFor_first(k) == 0

\* self.data.command_buffers[image_index]
CommandBufferFor(k) == k

SubmitWait_none == {}

\* SubmitInfo::wait_semaphores(&[self.data.image_available_semaphore])
SubmitWait == {"image_available_semaphore"}

\* queue_submit(graphics_queue, [wait image_available at COLOR_ATTACHMENT_OUTPUT,
\* command_buffers[image_index], signal render_finished], null fence)
queue_submit ==
    /\ pc = "submit"
    /\ \/ /\ CommandBufferFor(image_index) < Count("command_buffer")
          /\ LET o == Op("submit", CommandBufferFor(image_index),
                         SubmitWait, {"render_finished_semaphore"})
             IN /\ queues' = [queues EXCEPT ![graphics_queue] = Append(@, o)]
                /\ calls' = Append(calls,
                       ApiCall("queue_submit", graphics_queue, o.image, o.wait,
                               o.signal, ""))
          /\ sem' = [sem EXCEPT !["render_finished_semaphore"] = "pending"]
          /\ pc' = "present"
          /\ fault' = fault
       \/ /\ pc' = OnErr("present")
          /\ fault' = Fault("unwrap", "queue_submit")
          /\ UNCHANGED <<queues, calls, sem>>
    /\ UNCHANGED <<image_index, img, renderFrame>>

PresentWait_none == {}

\* PresentInfoKHR::wait_semaphores(signal_semaphores)
PresentWait == {"render_finished_semaphore"}

\* queue_present(present_queue, [wait render_finished, swapchain, image_index])
queue_present ==
    /\ pc = "present"
    /\ \/ /\ LET o == Op("present", image_index, PresentWait, {})
             IN /\ queues' = [queues EXCEPT ![present_queue] = Append(@, o)]
                /\ calls' = Append(calls,
                       ApiCall("queue_present", present_queue, o.image, o.wait, {}, ""))
          /\ pc' = "drain"
          /\ fault' = fault
       \/ /\ pc' = OnErr("drain")
          /\ fault' = Fault("unwrap", "queue_present")
          /\ UNCHANGED <<queues, calls>>
    /\ UNCHANGED <<image_index, img, sem, renderFrame>>

DrainQueue_graphics == graphics_queue

\* queue_wait_idle(self.data.present_queue)
DrainQueue == present_queue

\* The call blocks until the queue has nothing left to do, and render returns.
queue_wait_idle ==
    /\ pc = "drain"
    /\ \/ /\ queues[DrainQueue] = <<>>
          /\ calls' = Append(calls,
                 ApiCall("queue_wait_idle", DrainQueue, image_index, {}, {}, ""))
          /\ pc' = "idle"
          /\ fault' = fault
       \/ /\ pc' = OnErr("idle")
          /\ fault' = Fault("unwrap", "queue_wait_idle")
          /\ UNCHANGED calls
    /\ UNCHANGED <<image_index, img, sem, queues, renderFrame>>

Render ==
    \/ acquire_next_image
    \/ queue_submit
    \/ queue_present
    \/ queue_wait_idle

\* ------------------------------------------------------------------ closing
closeFrame == <<step, created, recorded, graphics_queue, present_queue, frame, calls,
                image_index, img, sem, queues, host, devVars>>

\* WindowEvent::CloseRequested: lines 44-45, then the handler goes on to line 48.
CloseRequested ==
    /\ pc = "idle"
    /\ closes < MaxClose
    /\ closes' = closes + 1
    /\ lastEvent' = "CloseRequested"
    /\ destroying' = TRUE
    /\ control_flow' = "Exit"
    /\ pc' = "wait_idle"
    /\ UNCHANGED <<alive, waits, destroyCalls, dstep, destroyLog, doubleDestroy,
                   fault, closeFrame>>

AfterWait_ignored(result) == "destroy"

\* app.device.device_wait_idle().unwrap(); app.destroy();
AfterWait(result) == IF result = "ok" THEN "destroy" ELSE "panicked"

\* device_wait_idle blocks until every queue of the device is idle, or fails.  On
\* a device that was destroyed the call is undefined: it may return either
\* result at once, or the process ends.
device_wait_idle ==
    /\ pc = "wait_idle"
    /\ \/ \E result \in {"ok", "failed"} :
            /\ (result = "ok" /\ R("device", 0) \in alive) => GpuIdle
            /\ waits' = Append(waits, result)
            /\ pc' = AfterWait(result)
            /\ fault' = IF result = "ok" THEN fault
                        ELSE Fault("unwrap", "device_wait_idle")
            /\ IF AfterWait(result) = "destroy"
               THEN /\ destroyCalls' = destroyCalls + 1
                    /\ dstep' = 1
                    /\ destroyLog' = <<>>
               ELSE UNCHANGED <<destroyCalls, dstep, destroyLog>>
       \/ /\ R("device", 0) \notin alive
          /\ pc' = "crashed"
          /\ UNCHANGED <<waits, destroyCalls, dstep, destroyLog, fault>>
    /\ UNCHANGED <<alive, destroying, control_flow, lastEvent, closes, doubleDestroy,
                   closeFrame>>

\* The handles of one kind that AppData holds, in the order they were stored.
Created(kind) == SelectSeq(created, LAMBDA r : r.kind = kind)

DestroySequence_deviceEarly ==
    <<R("render_finished_semaphore", 0), R("image_available_semaphore", 0),
      R("command_pool", 0)>>
    \o Created("framebuffer")
    \o <<R("pipeline", 0), R("pipeline_layout", 0), R("render_pass", 0)>>
    \o Created("image_view")
    \o <<R("device", 0), R("swapchain", 0), R("messenger", 0), R("surface", 0),
         R("instance", 0)>>

DestroySequence_layoutLate ==
    <<R("render_finished_semaphore", 0), R("image_available_semaphore", 0),
      R("command_pool", 0)>>
    \o Created("framebuffer")
    \o <<R("pipeline", 0), R("render_pass", 0), R("pipeline_layout", 0)>>
    \o Created("image_view")
    \o <<R("swapchain", 0), R("device", 0), R("messenger", 0), R("surface", 0),
         R("instance", 0)>>

DestroySequence_viewsEarly ==
    <<R("render_finished_semaphore", 0), R("image_available_semaphore", 0),
      R("command_pool", 0)>>
    \o Created("image_view")
    \o Created("framebuffer")
    \o <<R("pipeline", 0), R("pipeline_layout", 0), R("render_pass", 0),
         R("swapchain", 0), R("device", 0), R("messenger", 0), R("surface", 0),
         R("instance", 0)>>

\* The destroy calls of App::destroy, in order.
DestroySequence ==
    <<R("render_finished_semaphore", 0), R("image_available_semaphore", 0),
      R("command_pool", 0)>>
    \o Created("framebuffer")
    \o <<R("pipeline", 0), R("pipeline_layout", 0), R("render_pass", 0)>>
    \o Created("image_view")
    \o <<R("swapchain", 0), R("device", 0), R("messenger", 0), R("surface", 0),
         R("instance", 0)>>

\* Destroying a command pool frees the command buffers allocated from it.
Freed(r) ==
    IF r.kind = "command_pool"
    THEN {r} \cup {c \in alive : c.kind = "command_buffer"}
    ELSE {r}

\* One destroy call of App::destroy.  A destroy call on a handle that no longer
\* exists is undefined: the process goes on, or ends.
destroy ==
    /\ pc = "destroy"
    /\ LET r == DestroySequence[dstep]
           last == dstep = Len(DestroySequence)
       IN \/ /\ alive' = alive \ Freed(r)
             /\ destroyLog' = Append(destroyLog, r)
             /\ doubleDestroy' = (doubleDestroy \/ r \notin alive)
             /\ dstep' = dstep + 1
             /\ pc' = IF last THEN "idle" ELSE "destroy"
          \/ /\ r \notin alive
             /\ doubleDestroy' = TRUE
             /\ pc' = "crashed"
             /\ UNCHANGED <<alive, destroyLog, dstep>>
    /\ UNCHANGED <<destroying, control_flow, lastEvent, closes, waits, destroyCalls,
                   fault, closeFrame>>

\* After ControlFlow::Exit the event loop stops once the events it still holds
\* have been handed to the callback.
LoopExit ==
    /\ pc = "idle"
    /\ control_flow = "Exit"
    /\ pc' = "exited"
    /\ UNCHANGED <<step, created, alive, recorded, graphics_queue, present_queue,
                   destroying, control_flow, lastEvent, frame, calls, image_index, img,
                   sem, queues, closes, waits, destroyCalls, dstep, destroyLog,
                   doubleDestroy, host, fault, devVars>>

Close ==
    \/ CloseRequested
    \/ device_wait_idle
    \/ destroy
    \/ LoopExit

\* --------------------------------------------------------------- the program
NoDevice == [device_type |-> "OTHER", geometry_shader |-> 0, families |-> <<>>,
             extensions |-> <<>>, formats |-> 0, present_modes |-> 0]

NoHost == [display |-> "Other", window |-> "Other", layers |-> {},
           vert_aligned |-> FALSE, frag_aligned |-> FALSE]

HostInit ==
    /\ pc = "create"
    /\ step = 1
    /\ created = <<>>
    /\ alive = {}
    /\ recorded = <<>>
    /\ graphics_queue = 0
    /\ present_queue = 0
    /\ destroying = FALSE
    /\ control_flow = "Poll"
    /\ lastEvent = "none"
    /\ frame = 0
    /\ calls = <<>>
    /\ image_index = 0
    /\ img = <<>>
    /\ sem = [s \in Sems |-> "unsignaled"]
    /\ queues = [q \in 1..NumFamilies |-> <<>>]
    /\ closes = 0
    /\ waits = <<>>
    /\ destroyCalls = 0
    /\ dstep = 1
    /\ destroyLog = <<>>
    /\ doubleDestroy = FALSE
    /\ fault = NoFault

Init ==
    /\ HostInit
    /\ host \in Hosts
    /\ dev = NoDevice
    /\ checked = <<>>
    /\ arg = <<>>
    /\ ret = <<>>

Next ==
    \/ Create
    \/ MainEventsCleared
    \/ OtherEvent
    \/ Render
    \/ Gpu
    \/ Close

Spec == Init /\ [][Next]_vars

\* --------------------------------------------------- check_physical_device
\* Largest number of extensions a device reports.
MaxExts == 1
\* Largest number of queue families a device reports.
MaxQueueFamilies == 2

DEVICE_EXTENSIONS == <<SwapchainName>>

SeqsUpTo(S, n) == UNION {[1..k -> S] : k \in 0..n}

QueueFamilies == [graphics : BOOLEAN, present : BOOLEAN]

DeviceRecords ==
    [device_type : {"DISCRETE_GPU", "INTEGRATED_GPU"},
     geometry_shader : {0, 1},
     families : SeqsUpTo(QueueFamilies, MaxQueueFamilies),
     extensions : SeqsUpTo(NameBuffers, MaxExts),
     formats : 0..1,
     present_modes : 0..1]

\* iter().position(pred), given where the predicate holds: the first such index,
\* 0 for None.
Position(holds) ==
    IF \E i \in 1..Len(holds) : holds[i]
    THEN CHOOSE i \in 1..Len(holds) : holds[i] /\ \A j \in 1..(i - 1) : ~holds[j]
    ELSE 0

\* QueueFamilyIndices::get: <<>> for None.
QueueFamilyIndices_get(d) ==
    LET graphics == Position([i \in 1..Len(d.families) |-> d.families[i].graphics])
        present == Position([i \in 1..Len(d.families) |-> d.families[i].present])
    IN IF graphics = 0 \/ present = 0
       THEN <<>>
       ELSE <<[graphics |-> graphics, present |-> present]>>

\* extensions.contains(&ext) for every required extension: whole buffers are
\* compared.
check_physical_device_extensions(d) ==
    \A e \in Range(DEVICE_EXTENSIONS) : ZeroPadded(e) \in Range(d.extensions)

check_physical_device(d) ==
    IF d.device_type # "DISCRETE_GPU" THEN FALSE
    ELSE IF d.geometry_shader # 1 THEN FALSE
    ELSE IF QueueFamilyIndices_get(d) = <<>> THEN FALSE
    ELSE IF ~check_physical_device_extensions(d) THEN FALSE
    ELSE IF d.formats = 0 \/ d.present_modes = 0 THEN FALSE
    ELSE TRUE

\* pick_physical_device asks check_physical_device about an enumerated device.
CheckDevice ==
    /\ checked = <<>>
    /\ checked' = <<check_physical_device(dev)>>
    /\ UNCHANGED <<dev, arg, ret, hostVars, img, sem, queues>>

DevInit ==
    /\ HostInit
    /\ host = NoHost
    /\ dev \in DeviceRecords
    /\ checked = <<>>
    /\ arg = <<>>
    /\ ret = <<>>

DevNext == CheckDevice

SpecDev == DevInit /\ [][DevNext]_vars

\* ------------------------------------------------- the functions of setup
\* Bits of a u32, scaled down.
WordBits == 3
\* Largest width or height of a window or of an extent bound.
MaxDim == 2
\* Longest list of surface formats.
MaxFormats == 3
\* Longest list of present modes.
MaxModes == 3
\* Largest number of physical devices enumerated.
MaxDevices == 3
\* Largest number of calls of one function on one input.
MaxCalls == 2

\* u32::MAX
WordMax == 2 ^ WordBits - 1

Word == 0..WordMax

\* a + b on u32: with overflow checks (debug builds) an overflow panics, <<>>;
\* without them (release builds) it wraps.
u32_add(a, b, overflow_checks) ==
    IF a + b > WordMax /\ overflow_checks
    THEN <<>>
    ELSE <<(a + b) % (2 ^ WordBits)>>

\* create_swapchain, lines 631-636: <<>> for a panic.
image_count(min_image_count, max_image_count, overflow_checks) ==
    LET sum == u32_add(min_image_count, 1, overflow_checks)
    IN IF sum = <<>> THEN <<>>
       ELSE IF max_image_count # 0 /\ sum[1] > max_image_count
            THEN <<max_image_count>>
            ELSE sum

u32_clamp_identity(v, lo, hi) == <<v>>

\* Ord::clamp: assert!(min <= max), then min, max or the value; <<>> for the
\* failed assertion.
u32_clamp(v, lo, hi) ==
    IF lo > hi THEN <<>>
    ELSE IF v < lo THEN <<lo>>
    ELSE IF v > hi THEN <<hi>>
    ELSE <<v>>

\* get_swapchain_extent(window, capabilities), size being window.inner_size().
get_swapchain_extent(size, capabilities) ==
    IF capabilities.current_extent.width # WordMax
    THEN <<capabilities.current_extent>>
    ELSE LET width == u32_clamp(size.width, capabilities.min_image_extent.width,
                                capabilities.max_image_extent.width)
             height == u32_clamp(size.height, capabilities.min_image_extent.height,
                                 capabilities.max_image_extent.height)
         IN IF width = <<>> \/ height = <<>>
            THEN <<>>
            ELSE <<[width |-> width[1], height |-> height[1]]>>

SurfaceFormat(format, color_space) == [format |-> format, color_space |-> color_space]

get_swapchain_surface_format_first(formats) ==
    IF formats = <<>> THEN <<>> ELSE <<formats[1]>>

\* find(B8G8R8A8_SRGB and SRGB_NONLINEAR).unwrap_or_else(|| formats[0]): <<>>
\* for the index out of bounds.
get_swapchain_surface_format(formats) ==
    LET found == Position([i \in 1..Len(formats) |->
                             /\ formats[i].format = "B8G8R8A8_SRGB"
                             /\ formats[i].color_space = "SRGB_NONLINEAR"])
    IN IF found # 0 THEN <<formats[found]>>
       ELSE IF formats = <<>> THEN <<>>
       ELSE <<formats[1]>>

get_swapchain_present_modes_fifo(present_modes) == <<"FIFO">>

\* find(MAILBOX).unwrap_or(FIFO)
get_swapchain_present_modes(present_modes) ==
    LET found == Position([i \in 1..Len(present_modes) |->
                             present_modes[i] = "MAILBOX"])
    IN IF found # 0 THEN <<present_modes[found]>> ELSE <<"FIFO">>

image_sharing_mode_exclusive(graphics, present) ==
    <<[image_sharing_mode |-> "EXCLUSIVE", queue_family_indices |-> <<>>]>>

\* create_swapchain, lines 638-645.
image_sharing_mode(graphics, present) ==
    IF graphics # present
    THEN <<[image_sharing_mode |-> "CONCURRENT",
            queue_family_indices |-> <<graphics, present>>]>>
    ELSE <<[image_sharing_mode |-> "EXCLUSIVE", queue_family_indices |-> <<>>]>>

\* The HashSet after the two inserts.
unique_indices(graphics, present) == {graphics} \cup {present}

queue_infos_both(indices) ==
    {<<[queue_family_index |-> indices.graphics, queue_priorities |-> <<1>>],
       [queue_family_index |-> indices.present, queue_priorities |-> <<1>>]>>}

\* unique_indices.iter().map(..).collect(): one DeviceQueueCreateInfo per element,
\* in whatever order the HashSet iterates.
queue_infos(indices) ==
    LET unique == unique_indices(indices.graphics, indices.present)
    IN {[i \in 1..Cardinality(unique) |->
            [queue_family_index |-> order[i], queue_priorities |-> <<1>>]] :
        order \in {o \in [1..Cardinality(unique) -> unique] :
                      \A i, j \in 1..Cardinality(unique) : o[i] = o[j] => i = j}}

Picked(examined, physical_device) ==
    [examined |-> examined, physical_device |-> physical_device]

RECURSIVE PickFrom(_, _)
\* The loop of pick_physical_device from the i-th enumerated device on: how many
\* devices were examined, and data.physical_device, <<>> for the panic.
PickFrom(devices, i) ==
    IF i > Len(devices) THEN Picked(Len(devices), <<>>)
    ELSE IF ~check_physical_device(devices[i]) THEN PickFrom(devices, i + 1)
    ELSE Picked(i, <<i>>)

PickPhysicalDevice_last(devices) ==
    LET passing == {i \in 1..Len(devices) : check_physical_device(devices[i])}
    IN IF passing = {} THEN Picked(Len(devices), <<>>)
       ELSE Picked(Len(devices), <<CHOOSE i \in passing : \A j \in passing : j <= i>>)

PickPhysicalDevice(devices) == PickFrom(devices, 1)

\* DebugUtilsMessageSeverityFlagsEXT: one bit per severity.
SEVERITY_VERBOSE == 1
SEVERITY_INFO == 16
SEVERITY_WARNING == 256
SEVERITY_ERROR == 4096
\* vk::FALSE
VK_FALSE == 0

\* What a tracing macro hands to the subscriber.
Event(level, message) == [level |-> level, message |-> message]

debug_callback_silent(severity, message) == [result |-> VK_FALSE, log |-> <<>>]

\* debug_callback: the value it returns and the tracing events it emits.
debug_callback(severity, message) ==
    [result |-> VK_FALSE,
     log |-> IF severity >= SEVERITY_ERROR THEN <<Event("error", message)>>
             ELSE IF severity >= SEVERITY_WARNING THEN <<Event("warn", message)>>
             ELSE IF severity >= SEVERITY_INFO THEN <<Event("debug", message)>>
             ELSE <<Event("trace", message)>>]

\* The severity words: every set of severity bits, the empty one included.
Severities ==
    {v + i + w + e : v \in {0, SEVERITY_VERBOSE}, i \in {0, SEVERITY_INFO},
                     w \in {0, SEVERITY_WARNING}, e \in {0, SEVERITY_ERROR}}

Extents(S) == [width : S, height : S]

SurfaceFormats ==
    {SurfaceFormat(f, c) : f \in {"B8G8R8A8_SRGB", "B8G8R8A8_UNORM"},
                           c \in {"SRGB_NONLINEAR", "EXTENDED_SRGB_LINEAR_EXT"}}

PresentModes == {"IMMEDIATE", "MAILBOX", "FIFO", "FIFO_RELAXED"}

\* A device that passes every test of check_physical_device, and devices that
\* fail one of them.
GoodDevice ==
    [device_type |-> "DISCRETE_GPU", geometry_shader |-> 1,
     families |-> <<[graphics |-> TRUE, present |-> TRUE]>>,
     extensions |-> <<ZeroPadded(SwapchainName)>>, formats |-> 1, present_modes |-> 1]

SampleDevices ==
    {GoodDevice,
     [GoodDevice EXCEPT !.device_type = "INTEGRATED_GPU"],
     [GoodDevice EXCEPT !.families = <<[graphics |-> TRUE, present |-> FALSE]>>],
     [GoodDevice EXCEPT !.extensions = <<>>]}

\* A function of setup is called on its input, again and again; a call that
\* panicked is the last one.
Calling(fn) ==
    /\ arg.fn = fn
    /\ Len(ret) < MaxCalls
    /\ ret # <<>> => ret[Len(ret)] # <<>>

Returns(result) ==
    /\ ret' = Append(ret, result)
    /\ UNCHANGED <<arg, dev, checked, hostVars, img, sem, queues>>

CallImageCount ==
    /\ Calling("image_count")
    /\ \E overflow_checks \in BOOLEAN :
          Returns(image_count(arg.min_image_count, arg.max_image_count,
                              overflow_checks))

CallExtent ==
    /\ Calling("get_swapchain_extent")
    /\ Returns(get_swapchain_extent(arg.size, arg.capabilities))

CallSurfaceFormat ==
    /\ Calling("get_swapchain_surface_format")
    /\ Returns(get_swapchain_surface_format(arg.formats))

CallPresentModes ==
    /\ Calling("get_swapchain_present_modes")
    /\ Returns(get_swapchain_present_modes(arg.present_modes))

CallSharingMode ==
    /\ Calling("image_sharing_mode")
    /\ Returns(image_sharing_mode(arg.graphics, arg.present))

CallQueueInfos ==
    /\ Calling("queue_infos")
    /\ \E infos \in queue_infos(arg) : Returns(<<infos>>)

CallPick ==
    /\ Calling("pick_physical_device")
    /\ Returns(<<PickPhysicalDevice(arg.devices)>>)

CallDebugCallback ==
    /\ Calling("debug_callback")
    /\ Returns(<<debug_callback(arg.severity, arg.message)>>)

FnInit ==
    /\ HostInit
    /\ host = NoHost
    /\ dev = NoDevice
    /\ checked = <<>>
    /\ ret = <<>>
    /\ \/ arg \in [fn : {"image_count"}, min_image_count : Word,
                   max_image_count : Word]
       \/ arg \in [fn : {"get_swapchain_extent"}, size : Extents(0..MaxDim),
                   capabilities : [current_extent : Extents({0, MaxDim, WordMax}),
                                   min_image_extent : Extents(0..MaxDim),
                                   max_image_extent : Extents(0..MaxDim)]]
       \/ arg \in [fn : {"get_swapchain_surface_format"},
                   formats : SeqsUpTo(SurfaceFormats, MaxFormats)]
       \/ arg \in [fn : {"get_swapchain_present_modes"},
                   present_modes : SeqsUpTo(PresentModes, MaxModes)]
       \/ arg \in [fn : {"image_sharing_mode", "queue_infos"},
                   graphics : 1..NumFamilies, present : 1..NumFamilies]
       \/ arg \in [fn : {"pick_physical_device"},
                   devices : SeqsUpTo(SampleDevices, MaxDevices)]
       \/ arg \in [fn : {"debug_callback"}, severity : Severities,
                   message : {"a", "b"}]

FnNext ==
    \/ CallImageCount
    \/ CallExtent
    \/ CallSurfaceFormat
    \/ CallPresentModes
    \/ CallSharingMode
    \/ CallQueueInfos
    \/ CallPick
    \/ CallDebugCallback

SpecFn == FnInit /\ [][FnNext]_vars

\* ================================================================== claims
IsPrefix(a, b) == Len(a) <= Len(b) /\ SubSeq(b, 1, Len(a)) = a

Pos(s, r) == CHOOSE i \in 1..Len(s) : s[i] = r

InRender == pc \in {"acquire", "submit", "present", "drain"}

\* The event loop, or the close handler it called, runs after a render call
\* that returned.
RenderReturned == frame > 0 /\ pc \in {"idle", "wait_idle", "destroy", "exited"}

FrameCalls(k) ==
    <<[call |-> "acquire_next_image", queue |-> 0, image |-> k, wait |-> {},
       signal |-> {"image_available_semaphore"}, timeout |-> "u64::MAX"],
      [call |-> "queue_submit", queue |-> graphics_queue, image |-> k,
       wait |-> {"image_available_semaphore"},
       signal |-> {"render_finished_semaphore"}, timeout |-> ""],
      [call |-> "queue_present", queue |-> present_queue, image |-> k,
       wait |-> {"render_finished_semaphore"}, signal |-> {}, timeout |-> ""],
      [call |-> "queue_wait_idle", queue |-> present_queue, image |-> k,
       wait |-> {}, signal |-> {}, timeout |-> ""]>>

\* C1: a call of App::render makes exactly the calls acquire (unbounded timeout,
\* signalling image-available), submit to the graphics queue of the command
\* buffer of the acquired index (waiting on image-available, signalling
\* render-finished), present of the same index on the present queue (waiting on
\* render-finished) and the wait for the present queue to be idle, in this order
\* and each once; it has made all four, and the present queue is idle, when it
\* returns to the event loop.
C1_RenderCalls ==
    /\ calls # <<>> => IsPrefix(calls, FrameCalls(calls[1].image))
    /\ pc = "acquire" => Len(calls) = 0
    /\ pc = "submit" => Len(calls) = 1
    /\ pc = "present" => Len(calls) = 2
    /\ pc = "drain" => Len(calls) = 3
    /\ RenderReturned => Len(calls) = 4 /\ queues[present_queue] = <<>>

C1_Witness ==
    /\ pc = "idle"
    /\ frame = 2
    /\ Len(calls) = 4
    /\ calls[2].image = 1
    /\ graphics_queue # present_queue

\* C2: an image that the presentation engine has started to present in a frame
\* holds the finished output of the command buffer submitted for it in that
\* frame.
C2_PresentAfterRender == \A k \in DOMAIN img : img[k].shown => img[k].ready

C2_Witness ==
    /\ frame = 2
    /\ graphics_queue # present_queue
    /\ \E k \in DOMAIN img : img[k].shown /\ k = image_index /\ pc = "drain"

\* C3: whenever the event loop has control, and whenever an acquire is about to
\* be issued, no submission and no present request is pending on any queue and
\* no image of an earlier frame is still held by the application.
C3_OneFrameInFlight ==
    pc \in {"idle", "acquire", "wait_idle", "destroy"} =>
        /\ GpuIdle
        /\ \A k \in DOMAIN img : ~img[k].acquired
        /\ \A s \in Sems : sem[s] # "pending"

C3_Witness ==
    /\ pc = "acquire"
    /\ frame = 2
    /\ graphics_queue # present_queue
    /\ GpuIdle

Group(r) ==
    IF r.kind \in {"render_finished_semaphore", "image_available_semaphore"}
    THEN "semaphores"
    ELSE r.kind

\* The groups of a log, runs of one group written once.
RECURSIVE Collapse(_)
Collapse(s) ==
    IF Len(s) = 0 THEN <<>>
    ELSE LET front == Collapse(SubSeq(s, 1, Len(s) - 1))
             g == Group(s[Len(s)])
         IN IF Len(front) > 0 /\ front[Len(front)] = g THEN front ELSE Append(front, g)

ClaimedDestroyOrder ==
    <<"semaphores", "command_pool", "framebuffer", "pipeline", "pipeline_layout",
      "render_pass", "image_view", "swapchain", "device", "messenger", "surface",
      "instance">>

\* What App holds when App::create has returned.
Held ==
    {r \in Range(created) :
        r.kind \notin {"physical_device", "shader_module", "command_buffer"}}

\* An App::destroy call has run to its end.
DestroyDone == destroyCalls >= 1 /\ pc \in {"idle", "exited", "wait_idle"}

\* C4: a call of App::destroy destroys, in this order, the semaphores, the
\* command pool, all framebuffers, the pipeline, the pipeline layout, the render
\* pass, all image views, the swapchain, the device, the messenger, the surface
\* and the instance, each resource once and the instance last.
C4_DestroyOrder ==
    /\ IsPrefix(Collapse(destroyLog), ClaimedDestroyOrder)
    /\ \A i, j \in 1..Len(destroyLog) : i # j => destroyLog[i] # destroyLog[j]
    /\ DestroyDone =>
          /\ Collapse(destroyLog) = ClaimedDestroyOrder
          /\ Range(destroyLog) = Held
          /\ destroyLog[Len(destroyLog)] = R("instance", 0)

C4_Witness ==
    /\ pc = "idle"
    /\ destroyCalls = 1
    /\ Cardinality(DOMAIN img) = 2
    /\ Range(destroyLog) = Held

\* C5 as stated: of two resources that App::destroy destroys, the one created
\* later is destroyed earlier.
C5_ExactReverse ==
    DestroyDone =>
        \A i, j \in 1..Len(created) :
            (i < j /\ created[i] \in Held /\ created[j] \in Held) =>
                Pos(destroyLog, created[j]) < Pos(destroyLog, created[i])

\* C5 amended: of two resources of different kinds the one created later is
\* destroyed earlier, except the messenger and the surface, which are destroyed
\* in the order they were created; the framebuffers among themselves and the
\* image views among themselves are destroyed in the order they were created.
C5_ReverseByKind ==
    DestroyDone =>
        \A i, j \in 1..Len(created) :
            (i < j /\ created[i] \in Held /\ created[j] \in Held) =>
                LET a == created[i]
                    b == created[j]
                IN IF a.kind = b.kind \/ {a.kind, b.kind} = {"messenger", "surface"}
                   THEN Pos(destroyLog, a) < Pos(destroyLog, b)
                   ELSE Pos(destroyLog, b) < Pos(destroyLog, a)

C5_Witness ==
    /\ pc = "exited"
    /\ destroyCalls = 1
    /\ Cardinality(DOMAIN img) = 2
    /\ Len(destroyLog) = Cardinality(Held)

\* C6 as stated: App::destroy is called at most once and no destroy call is made
\* on a resource that was already destroyed.
C6_TeardownOnce == destroyCalls <= 1 /\ ~doubleDestroy

\* C7: no render call is in progress once a close request was handled, and from
\* then on no event starts one: the frame count and the calls made stay as they
\* are.
C7_NoRenderAfterClose ==
    /\ [](InRender => (~destroying /\ closes = 0 /\ destroyCalls = 0))
    /\ [][destroying => (frame' = frame /\ calls' = calls)]_vars

C7_Witness ==
    /\ destroying
    /\ lastEvent = "MainEventsCleared"
    /\ pc = "idle"
    /\ frame = 1

OkWaits == {i \in 1..Len(waits) : waits[i] = "ok"}

\* C8: App::destroy is called once per device_wait_idle that returned Ok, and
\* not after one that failed; when the first App::destroy call starts no
\* operation is pending on any queue.
C8_IdleBeforeDestroy ==
    /\ destroyCalls = Cardinality(OkWaits)
    /\ destroyCalls >= 1 => waits[1] = "ok"
    /\ (pc = "destroy" /\ destroyCalls = 1) => GpuIdle
    /\ (Len(waits) = 1 /\ waits[1] = "failed") => (pc = "panicked" /\ destroyLog = <<>>)

C8_Witness ==
    /\ pc = "destroy"
    /\ dstep = 1
    /\ destroyCalls = 1
    /\ frame = 2
    /\ waits = <<"ok">>

\* What each kind of resource is created from.
Needs(kind) ==
    CASE kind = "messenger" -> {"instance"}
      [] kind = "surface" -> {"instance"}
      [] kind = "physical_device" -> {"surface"}
      [] kind = "device" -> {"physical_device"}
      [] kind = "swapchain" -> {"device", "surface"}
      [] kind = "image_view" -> {"swapchain"}
      [] kind = "render_pass" -> {"swapchain"}
      [] kind = "pipeline" -> {"render_pass", "swapchain"}
      [] kind = "framebuffer" -> {"render_pass", "image_view"}
      [] kind = "command_buffer" -> {"command_pool", "framebuffer", "pipeline"}
      [] OTHER -> {}

\* C9: in every state of initialization, each resource created so far was
\* created after a resource of every kind it depends on.
C9_DependenciesFirst ==
    \A i \in 1..Len(created) :
        \A need \in Needs(created[i].kind) :
            \E j \in 1..(i - 1) : created[j].kind = need

C9_Witness ==
    /\ pc = "idle"
    /\ frame = 0
    /\ closes = 0
    /\ Count("command_buffer") = 2
    /\ Count("render_finished_semaphore") = 1

\* The string a name buffer holds: the bytes before the first NUL.
StringOf(b) ==
    LET nul == CHOOSE i \in 1..Len(b) : b[i] = 0 /\ \A j \in 1..(i - 1) : b[j] # 0
    IN SubSeq(b, 1, nul - 1)

\* The conditions C10 lists.
Suitable(d) ==
    /\ d.device_type = "DISCRETE_GPU"
    /\ d.geometry_shader = 1
    /\ \E i \in 1..Len(d.families) : d.families[i].graphics
    /\ \E i \in 1..Len(d.families) : d.families[i].present
    /\ \A e \in Range(DEVICE_EXTENSIONS) :
          \E i \in 1..Len(d.extensions) : StringOf(d.extensions[i]) = e
    /\ d.formats > 0
    /\ d.present_modes > 0

\* C10 as stated: check_physical_device returns true exactly for the devices
\* that are discrete, have the geometry shader, a graphics and a presentation
\* queue family, every required extension in their extension list, and a
\* non-empty format list and present-mode list.
C10_CheckIffSuitable == checked # <<>> => (checked[1] <=> Suitable(dev))

\* The calls that have returned, in the specification of the setup functions.
Results(fn) == IF arg.fn = fn THEN {ret[i] : i \in 1..Len(ret)} ELSE {}

\* C11 as stated: for every min_image_count and max_image_count the image count
\* is min_image_count + 1 when max_image_count is 0 or min_image_count + 1 <=
\* max_image_count, and max_image_count otherwise, the sum being the sum of the
\* integers: the addition neither overflows nor fails.
C11_ImageCount ==
    \A r \in Results("image_count") :
        r = <<IF arg.max_image_count = 0
                 \/ arg.min_image_count + 1 <= arg.max_image_count
              THEN arg.min_image_count + 1
              ELSE arg.max_image_count>>

Sentinel == arg.capabilities.current_extent.width = WordMax

Within(v, lo, hi) == lo <= v /\ v <= hi

\* The extent C12 describes.
ExtentAsClaimed(e) ==
    LET c == arg.capabilities
    IN IF ~Sentinel
       THEN e = c.current_extent
       ELSE /\ Within(e.width, c.min_image_extent.width, c.max_image_extent.width)
            /\ Within(e.height, c.min_image_extent.height, c.max_image_extent.height)
            /\ Within(arg.size.width, c.min_image_extent.width,
                      c.max_image_extent.width) => e.width = arg.size.width
            /\ Within(arg.size.height, c.min_image_extent.height,
                      c.max_image_extent.height) => e.height = arg.size.height

\* A report whose minimum exceeds its maximum, in width or in height.
Disordered ==
    LET c == arg.capabilities
    IN \/ c.min_image_extent.width > c.max_image_extent.width
       \/ c.min_image_extent.height > c.max_image_extent.height

\* C12 as stated: get_swapchain_extent returns a value for every input, a report
\* whose minimum exceeds its maximum included: current_extent when its width is
\* not the sentinel, and otherwise a width and a height inside the bounds, equal
\* to the window's when that is inside them.
C12_ExtentAlways ==
    \A r \in Results("get_swapchain_extent") : r # <<>> /\ ExtentAsClaimed(r[1])

\* C12, amended: get_swapchain_extent returns current_extent when its width is
\* not the sentinel; with the sentinel it panics when the minimum exceeds the
\* maximum in width or in height, and otherwise returns a width and a height
\* inside the bounds, equal to the window's when that is inside them.
C12_ExtentWhenOrdered ==
    \A r \in Results("get_swapchain_extent") :
        IF Sentinel /\ Disordered
        THEN r = <<>>
        ELSE r # <<>> /\ ExtentAsClaimed(r[1])

C12_Witness ==
    /\ Results("get_swapchain_extent") # {}
    /\ Sentinel
    /\ ~Disordered
    /\ arg.size.width > arg.capabilities.max_image_extent.width
    /\ arg.size.height < arg.capabilities.min_image_extent.height

Preferred == SurfaceFormat("B8G8R8A8_SRGB", "SRGB_NONLINEAR")

\* C13: on a non-empty list get_swapchain_surface_format returns
\* (B8G8R8A8_SRGB, SRGB_NONLINEAR) when it is anywhere in the list and the first
\* element otherwise; the result is a member of the list, and every call on the
\* same list returns the same.
C13_SurfaceFormat ==
    (arg.fn = "get_swapchain_surface_format" /\ arg.formats # <<>>) =>
        \A r \in Results("get_swapchain_surface_format") :
            /\ r # <<>>
            /\ r[1] \in Range(arg.formats)
            /\ r[1] = IF Preferred \in Range(arg.formats) THEN Preferred
                      ELSE arg.formats[1]
            /\ r = ret[1]

C13_Witness ==
    /\ arg.fn = "get_swapchain_surface_format"
    /\ Len(ret) = MaxCalls
    /\ Len(arg.formats) > 1
    /\ arg.formats[1] # Preferred
    /\ Preferred \in Range(arg.formats)

\* C14: for every list of present modes, the empty one and those without FIFO
\* included, get_swapchain_present_modes returns MAILBOX when MAILBOX is in the
\* list and FIFO otherwise: no other mode, and no failure.
C14_PresentMode ==
    \A r \in Results("get_swapchain_present_modes") :
        r = <<IF "MAILBOX" \in Range(arg.present_modes) THEN "MAILBOX" ELSE "FIFO">>

C14_Witness ==
    /\ Results("get_swapchain_present_modes") # {}
    /\ Len(arg.present_modes) > 1
    /\ arg.present_modes[1] = "IMMEDIATE"
    /\ "MAILBOX" \in Range(arg.present_modes)
    /\ "FIFO" \notin Range(arg.present_modes)

\* C15: create_swapchain uses CONCURRENT with the list [graphics, present]
\* exactly when the two indices differ, and EXCLUSIVE with an empty list exactly
\* when they are equal.
C15_SharingMode ==
    \A r \in Results("image_sharing_mode") :
        /\ r # <<>>
        /\ (/\ r[1].image_sharing_mode = "CONCURRENT"
            /\ r[1].queue_family_indices = <<arg.graphics, arg.present>>)
              <=> arg.graphics # arg.present
        /\ (/\ r[1].image_sharing_mode = "EXCLUSIVE"
            /\ r[1].queue_family_indices = <<>>)
              <=> arg.graphics = arg.present

C15_Witness ==
    /\ Results("image_sharing_mode") # {}
    /\ arg.graphics # arg.present

\* C16: the families of the queue-create entries are {graphics, present}: one
\* entry when the two indices are equal and two otherwise, one entry per
\* family, and no family in two entries.
C16_UniqueQueueInfos ==
    \A r \in Results("queue_infos") :
        LET infos == r[1]
            families == {infos[i].queue_family_index : i \in 1..Len(infos)}
        IN /\ families = {arg.graphics, arg.present}
           /\ Cardinality(families) = IF arg.graphics = arg.present THEN 1 ELSE 2
           /\ Len(infos) = Cardinality(families)
           /\ \A i, j \in 1..Len(infos) :
                 infos[i].queue_family_index = infos[j].queue_family_index => i = j

C16_Witness ==
    /\ Results("queue_infos") # {}
    /\ arg.graphics = arg.present

RenderCalls == <<"acquire_next_image", "queue_submit", "queue_present",
                 "queue_wait_idle">>

RenderFailed == fault.at \in Range(RenderCalls)

\* C17: a failure of acquire, submit, present or the idle wait in App::render
\* ends the process at that step: the calls of the frame are those before the
\* failed one, and from then on no call is made, no frame is begun and the
\* failed call is not made again.
C17_RenderFailureFatal ==
    /\ [](RenderFailed =>
            /\ pc = "panicked"
            /\ Len(calls) = Pos(RenderCalls, fault.at) - 1)
    /\ [][RenderFailed =>
            /\ pc' = pc
            /\ frame' = frame
            /\ calls' = calls
            /\ queues' = queues
            /\ fault' = fault]_vars

C17_Witness ==
    /\ pc = "panicked"
    /\ fault = Fault("unwrap", "queue_submit")
    /\ frame = 2
    /\ Len(calls) = 1

SupportedBackend ==
    <<host.display, host.window>> \in
        {<<"Xlib", "Xlib">>, <<"Xcb", "Xcb">>, <<"Wayland", "Wayland">>,
         <<"Windows", "Win32">>}

\* C18 as stated: on Xlib, Xcb, Wayland and Win32 initialization does not end in
\* the unimplemented condition and, no other step failing, creates the surface;
\* on every other backend or pair of handles it creates no surface and, no other
\* step failing before, ends in the unimplemented condition.
C18_SurfacePerBackend ==
    /\ SupportedBackend => fault.kind # "todo!"
    /\ (SupportedBackend /\ pc # "create" /\ fault.kind \notin {"unwrap", "panic!"})
          => Created("surface") # <<>>
    /\ ~SupportedBackend => Created("surface") = <<>>
    /\ (~SupportedBackend /\ pc # "create" /\ fault.kind \notin {"unwrap", "panic!"})
          => fault.kind = "todo!"

\* C19: pick_physical_device selects the first enumerated device that passes
\* check_physical_device: none before it passes, none after it is examined, it
\* is stored as the physical device; when none passes, the empty enumeration
\* included, every device was examined and the function panics with no device
\* selected.
C19_FirstSuitableDevice ==
    \A r \in Results("pick_physical_device") :
        LET devices == arg.devices
            picked == r[1]
        IN IF \E i \in 1..Len(devices) : check_physical_device(devices[i])
           THEN /\ picked.physical_device # <<>>
                /\ picked.physical_device[1] \in 1..Len(devices)
                /\ check_physical_device(devices[picked.physical_device[1]])
                /\ \A j \in 1..(picked.physical_device[1] - 1) :
                      ~check_physical_device(devices[j])
                /\ picked.examined = picked.physical_device[1]
           ELSE /\ picked.physical_device = <<>>
                /\ picked.examined = Len(devices)

C19_Witness ==
    /\ Results("pick_physical_device") # {}
    /\ Len(arg.devices) = 3
    /\ ~check_physical_device(arg.devices[1])
    /\ check_physical_device(arg.devices[2])
    /\ check_physical_device(arg.devices[3])

SetupFailed == fault.at \in Range(CreateOrder)

\* C20: App::render is entered, and the event loop reached, only after every
\* call of App::create succeeded; a setup step that fails (validation layer
\* absent, no device, misaligned shader, unsupported backend, a failed API call)
\* ends the process at that step: no later step runs, none is run again, and no
\* frame is rendered.
C20_SetupAllOrFatal ==
    /\ [](SetupFailed =>
            /\ pc = "panicked"
            /\ step = Pos(CreateOrder, fault.at)
            /\ frame = 0
            /\ calls = <<>>)
    /\ []((frame > 0 \/ pc \in {"idle", "acquire", "submit", "present", "drain"}) =>
            /\ step = Len(CreateOrder) + 1
            /\ ~SetupFailed
            /\ ZeroPaddedNul(VALIDATION_LAYER) \in host.layers
            /\ SurfaceArm(host.display, host.window) # ""
            /\ host.vert_aligned /\ host.frag_aligned
            /\ Count("physical_device") = 1)
    /\ [][SetupFailed =>
            /\ pc' = pc
            /\ step' = step
            /\ created' = created
            /\ alive' = alive
            /\ frame' = frame
            /\ fault' = fault]_vars

C20_Witness ==
    /\ pc = "panicked"
    /\ fault = Fault("panic!", "create_pipeline")
    /\ host.vert_aligned
    /\ Len(Created("shader_module")) = 1
    /\ frame = 0

\* The tracing level behind each of the four sink severities C21 names.
Sink(name) ==
    CASE name = "error" -> "error"
      [] name = "warning" -> "warn"
      [] name = "info" -> "info"
      [] name = "verbose" -> "trace"

\* The sink severity C21's rule gives.
ClaimedSink(severity) ==
    IF severity >= SEVERITY_ERROR THEN "error"
    ELSE IF severity >= SEVERITY_WARNING THEN "warning"
    ELSE IF severity >= SEVERITY_INFO THEN "info"
    ELSE "verbose"

\* C21 as stated: for every severity the callback returns FALSE and emits the
\* message exactly once, at the error sink if severity >= ERROR, else at the
\* warning sink if severity >= WARNING, else at the info sink if severity >=
\* INFO, else at the verbose sink.
C21_CallbackSinks ==
    \A r \in Results("debug_callback") :
        /\ r[1].result = VK_FALSE
        /\ r[1].log = <<Event(Sink(ClaimedSink(arg.severity)), arg.message)>>

\* C21, amended: for every severity the callback returns FALSE and emits the
\* message exactly once, at tracing's ERROR level if severity >= ERROR, else at
\* WARN if severity >= WARNING, else at DEBUG (not INFO) if severity >= INFO,
\* else at TRACE.
C21_CallbackLevels ==
    \A r \in Results("debug_callback") :
        /\ r[1].result = VK_FALSE
        /\ Len(r[1].log) = 1
        /\ r[1].log[1].message = arg.message
        /\ r[1].log[1].level =
              CASE ClaimedSink(arg.severity) = "error" -> "error"
                [] ClaimedSink(arg.severity) = "warning" -> "warn"
                [] ClaimedSink(arg.severity) = "info" -> "debug"
                [] ClaimedSink(arg.severity) = "verbose" -> "trace"

C21_Witness ==
    /\ Results("debug_callback") # {}
    /\ arg.severity = SEVERITY_INFO + SEVERITY_VERBOSE
    /\ ret[1][1].log[1].level = "debug"

\* App::create has returned and App::destroy has not been called.
Initialized == step > Len(CreateOrder) /\ destroyCalls = 0

Submitted == {o \in UNION {Range(queues[q]) : q \in DOMAIN queues} : o.kind = "submit"}

PresentRequests ==
    {o \in UNION {Range(queues[q]) : q \in DOMAIN queues} : o.kind = "present"}

\* C22: after App::create there are as many image views, framebuffers and
\* command buffers as swapchain images, and command buffer i renders into
\* framebuffer i, made from image view i of image i; the command buffer looked
\* up for an acquired index exists, and the submitted command buffer writes to
\* the image that was acquired and is then presented.
C22_BuffersMatchImages ==
    /\ Initialized =>
          /\ Count("image_view") = Cardinality(DOMAIN img)
          /\ Count("framebuffer") = Cardinality(DOMAIN img)
          /\ Count("command_buffer") = Cardinality(DOMAIN img)
          /\ \A i \in DOMAIN img :
                /\ {R("image_view", i), R("framebuffer", i), R("command_buffer", i)}
                      \subseteq alive
                /\ \E c \in Range(recorded) : c.command_buffer = R("command_buffer", i)
                /\ \A c \in Range(recorded) :
                      c.command_buffer = R("command_buffer", i) =>
                          /\ c.framebuffer = R("framebuffer", i)
                          /\ Attachment(c.framebuffer) = R("image_view", i)
                          /\ ImageOf(Attachment(c.framebuffer)) = i
    /\ pc \in {"submit", "present", "drain"} =>
          /\ image_index \in DOMAIN img
          /\ R("command_buffer", image_index) \in alive
    /\ \A o \in Submitted : Target(o.image) = image_index
    /\ \A o \in PresentRequests : o.image = image_index
    /\ \A k \in DOMAIN img : img[k].writing => (k = image_index /\ img[k].acquired)

C22_Witness ==
    /\ Initialized
    /\ frame = 2
    /\ image_index = 1
    /\ img[1].writing
    /\ PresentRequests # {}

\* C23: after App::create every command buffer has been recorded exactly once,
\* with the commands of the recording loop; the resources are those App::create
\* left, and no step of App::render, and nothing that happens during it, changes
\* the resources or the recorded commands.
C23_StaticAfterInit ==
    /\ [](Initialized =>
            /\ Len(recorded) = Count("command_buffer")
            /\ recorded = [i \in 1..Count("command_buffer") |-> Commands(i - 1)]
            /\ alive = {r \in Range(created) : r.kind # "shader_module"})
    /\ [][(InRender \/ pc' \in {"acquire", "submit", "present", "drain"}) =>
            /\ created' = created
            /\ alive' = alive
            /\ recorded' = recorded]_vars

C23_Witness ==
    /\ Initialized
    /\ pc = "idle"
    /\ frame = 2
    /\ Len(calls) = 4
    /\ Len(recorded) = 2

\* C24: the submitted command buffer begins to write to a swapchain image only
\* in a state where the image-available semaphore of the frame's acquire is
\* signalled, and the image is the one that acquire returned.
C24_WriteAfterImageAvailable ==
    [][\A k \in DOMAIN img \cap DOMAIN img' :
          (img'[k].writing /\ ~img[k].writing) =>
              /\ sem["image_available_semaphore"] = "signaled"
              /\ k = image_index
              /\ img[k].acquired]_vars

C24_Witness ==
    /\ frame = 2
    /\ img[image_index].writing
    /\ sem["image_available_semaphore"] = "unsignaled"
    /\ pc = "present"

\* The kinds of resource a resource of a kind depends on, as C25 lists them.
Requires(kind) ==
    CASE kind \in {"image_available_semaphore", "render_finished_semaphore",
                   "command_pool", "pipeline_layout"} -> {"device"}
      [] kind = "framebuffer" -> {"device", "render_pass", "image_view"}
      [] kind = "pipeline" -> {"device", "render_pass"}
      [] kind = "render_pass" -> {"device"}
      [] kind = "image_view" -> {"device", "swapchain"}
      [] kind = "swapchain" -> {"device", "surface"}
      [] kind \in {"messenger", "surface", "device"} -> {"instance"}
      [] OTHER -> {}

\* C25: no resource is destroyed while a resource that depends on it is alive:
\* in every state, App::destroy's included, what a live resource depends on is
\* alive.
C25_NoLiveDependents ==
    \A d \in alive : \A r \in Range(created) :
        r.kind \in Requires(d.kind) => r \in alive

C25_Witness ==
    /\ pc = "destroy"
    /\ destroyCalls = 1
    /\ Count("framebuffer") = 0
    /\ Count("render_pass") = 0
    /\ Count("image_view") = 2
    /\ Count("swapchain") = 1

Signals(s) == {i \in 1..Len(calls) : s \in calls[i].signal}

Waits(s) == {i \in 1..Len(calls) : s \in calls[i].wait}

\* C26: when App::render is entered both semaphores are unsignalled and nothing
\* is pending on a queue; a semaphore goes from unsignalled to signal pending to
\* signalled to unsignalled and in no other way; render-finished is untouched
\* until the submit; and a frame that has returned has signalled each semaphore
\* once and then waited on it once.
C26_SemaphoresBalanced ==
    /\ [](pc = "acquire" => (GpuIdle /\ \A s \in Sems : sem[s] = "unsignaled"))
    /\ [](pc = "submit" => sem["render_finished_semaphore"] = "unsignaled")
    /\ [](RenderReturned =>
            \A s \in Sems :
                /\ sem[s] = "unsignaled"
                /\ Cardinality(Signals(s)) = 1
                /\ Cardinality(Waits(s)) = 1
                /\ \A i \in Signals(s), j \in Waits(s) : i < j)
    /\ [][\A s \in Sems :
            sem'[s] # sem[s] =>
                <<sem[s], sem'[s]>> \in {<<"unsignaled", "pending">>,
                                        <<"pending", "signaled">>,
                                        <<"signaled", "unsignaled">>}]_vars

C26_Witness ==
    /\ pc = "acquire"
    /\ frame = 2
    /\ graphics_queue # present_queue

\* C27: the shader modules are created inside create_pipeline, before the
\* pipeline, and none is alive once create_pipeline has returned; after
\* App::create the pipeline is alive, and App::destroy destroys no shader
\* module.
C27_ShaderModulesTransient ==
    /\ step < Pos(CreateOrder, "create_pipeline") => Created("shader_module") = <<>>
    /\ step > Pos(CreateOrder, "create_pipeline") =>
          /\ Count("shader_module") = 0
          /\ Len(Created("shader_module")) = 2
    /\ R("pipeline", 0) \in Range(created) =>
          \A m \in Range(Created("shader_module")) :
              Pos(created, m) < Pos(created, R("pipeline", 0))
    /\ Initialized => R("pipeline", 0) \in alive
    /\ \A r \in Range(destroyLog) : r.kind # "shader_module"

C27_Witness ==
    /\ pc = "destroy"
    /\ destroyCalls = 1
    /\ R("pipeline", 0) \in Range(destroyLog)
    /\ Len(Created("shader_module")) = 2
    /\ Count("shader_module") = 0

====
